---- MODULE Spec2Model ----
(***************************************************************************)
(* Model of the append-only string arena of src/src/lib.rs (StringArena).  *)
(*                                                                         *)
(* The arena is a boxed byte slice of fixed length (its capacity) and a    *)
(* cell holding the number of bytes written.  add copies its input behind  *)
(* the bytes already written and returns a view of the copied range.       *)
(*                                                                         *)
(* usize is modelled as an unsigned word of UsizeBits bits, so that sums   *)
(* wrap as they do in a release build.  The block alloc returns is         *)
(* uninitialised: its first contents are any bytes.                        *)
(***************************************************************************)
EXTENDS Integers, Sequences, FiniteSets, TLC

(* ------------------------------ bounds --------------------------------- *)

\* width of usize in bits (scaled down from the machine word)
UsizeBits == 3
\* largest capacity a caller asks with_capacity for
MaxCap == 2
\* largest byte length of an input handed to add
MaxLen == 2
\* bytes are 1..MaxByte
MaxByte == 2
\* number of add calls made on one arena
MaxCalls == 3

(* ------------------------------ machine words -------------------------- *)

RECURSIVE Pow2(_)
Pow2(n) == IF n = 0 THEN 1 ELSE 2 * Pow2(n - 1)

\* number of values of usize
UsizeMod == Pow2(UsizeBits)

\* isize::MAX: the largest size Layout::from_size_align accepts at align 1,
\* and the largest byte length of a str
IsizeMax == Pow2(UsizeBits - 1) - 1

\* usize + usize as a release build computes it
wrapping_add(a, b) == (a + b) % UsizeMod

\* usize - usize as a release build computes it
wrapping_sub(a, b) == (a - b + UsizeMod) % UsizeMod

Min(a, b) == IF a < b THEN a ELSE b

Byte == 1..MaxByte

\* the inputs of add: byte strings of at most MaxLen (and isize::MAX) bytes
Strings == UNION { [1..n -> Byte] : n \in 0..Min(MaxLen, IsizeMax) }

\* Layout::from_size_align taking every size
layout_ok_any(cap) == TRUE

\* Layout::from_size_align(cap, align_of::<u8>()) is Ok: the size is at most
\* isize::MAX; unwrap panics on the error
layout_ok(cap) == cap <= IsizeMax

\* the capacities with_capacity accepts
Capacities == { c \in 0..MaxCap : layout_ok(c) }

(* ------------------------------ state ---------------------------------- *)

VARIABLES
    arena,      \* the boxed byte slice: a sequence of capacity bytes
    idx,        \* the cell counting the bytes written
    ret,        \* the last call and what it returned to the caller
    handles,    \* the string refs add has returned, in the order of issue
    ncalls,     \* number of add calls made so far
    inner,      \* what an add run from inside as_ref returned, if one ran
    life,       \* "new" before with_capacity, then "live", "dropped",
                \* "panicked" (unwrap) or "fault" (a write through null)
    block,      \* what alloc returned: "block", "null", or "none" before
    heap,       \* blocks of the allocator the arena has got and not given back
    released    \* number of dealloc calls made for the arena's block

\* the allocator's side of the arena
memvars == <<life, block, heap, released>>

vars == <<arena, idx, ret, handles, ncalls, inner, life, block, heap, released>>

\* a call's record; fields a call does not use hold their zero
Ret(op, s, kind, k, off, val) ==
    [op |-> op, s |-> s, kind |-> kind, k |-> k, off |-> off, val |-> val]

\* no call
NoCall == Ret("none", <<>>, "Ok", 0, 0, <<>>)

(* ------------------------------ inspectors ----------------------------- *)

\* StringArena::len
len(i) == i

\* the test turned round
is_empty_inverted(i) == len(i) # 0

\* StringArena::is_empty
is_empty(i) == len(i) = 0

\* StringArena::capacity
capacity(a) == Len(a)

(* ------------------------------ add ------------------------------------ *)

\* new_len = len + idx
new_len(s, i) == wrapping_add(Len(s), len(i))

\* the capacity test written with <= : an input that fits exactly is refused
exceeds_le(a, nl) == capacity(a) <= nl

\* the capacity test of add
exceeds(a, nl) == capacity(a) < nl

\* the subtraction with its operands exchanged
shortfall_swapped(a, nl) == wrapping_sub(capacity(a), nl)

\* the payload of Error::ExceedsCapacity
shortfall(a, nl) == wrapping_sub(nl, capacity(a))

\* a range check that refuses the empty range
slice_ok_strict(a, i, nl) == i < nl /\ nl <= Len(a)

\* &mut arena[idx..new_len] is in bounds (the index panics otherwise)
slice_ok(a, i, nl) == i <= nl /\ nl <= Len(a)

\* the copy stopped one byte short of the end of the range
copy_skip_last(a, i, nl, s) ==
    [p \in 1..Len(a) |-> IF i < p /\ p < nl THEN s[p - i] ELSE a[p]]

\* the copy made into arena[..len], the start of the buffer
copy_at_start(a, i, nl, s) ==
    [p \in 1..Len(a) |-> IF p <= Len(s) THEN s[p] ELSE a[p]]

\* bs.copy_from_slice(s.as_bytes()), bs being arena[idx..new_len]
copy_from_slice(a, i, nl, s) ==
    [p \in 1..Len(a) |-> IF i < p /\ p <= nl THEN s[p - i] ELSE a[p]]

\* idx.set(idx + new_len): the old count added once more
set_idx_accumulate(i, nl) == wrapping_add(i, nl)

\* the store left out: idx keeps its value
set_idx_stale(i, nl) == i

\* idx.set(len): the input's length stored instead of the new length
set_idx_len(i, nl) == wrapping_sub(nl, i)

\* self.idx.set(new_len)
set_idx(i, nl) == nl

\* from_utf8_unchecked(bs): the bytes of arena[idx..new_len], as they are
\* in the buffer after the copy
str_of(a, i, nl) == SubSeq(a, i + 1, nl)

\* add with the copy made before the capacity test: the bytes that fit are
\* written even when the call then fails
add_copy_first(a, i, s) ==
    LET nl == new_len(s, i)
        b  == [p \in 1..Len(a) |->
                 IF i < p /\ p <= nl /\ p - i <= Len(s) THEN s[p - i] ELSE a[p]]
    IN
    IF exceeds(a, nl)
    THEN [arena |-> b, idx |-> i,
          ret |-> Ret("add", s, "Err", shortfall(a, nl), 0, <<>>)]
    ELSE [arena |-> b, idx |-> set_idx(i, nl),
          ret |-> Ret("add", s, "Ok", 0, i, str_of(b, i, nl))]

\* add with idx stored before the capacity test: a refused input is counted
add_set_first(a, i, s) ==
    LET nl == new_len(s, i) IN
    IF exceeds(a, nl)
    THEN [arena |-> a, idx |-> set_idx(i, nl),
          ret |-> Ret("add", s, "Err", shortfall(a, nl), 0, <<>>)]
    ELSE IF ~slice_ok(a, i, nl) \/ nl - i # Len(s)
    THEN [arena |-> a, idx |-> i,
          ret |-> Ret("add", s, "Panic", 0, 0, <<>>)]
    ELSE LET b == copy_from_slice(a, i, nl, s) IN
         [arena |-> b, idx |-> set_idx(i, nl),
          ret |-> Ret("add", s, "Ok", 0, i, str_of(b, i, nl))]

\* StringArena::add as a function of the arena's fields and the input:
\* the fields after the call and what the caller gets
add(a, i, s) ==
    LET nl == new_len(s, i) IN
    IF exceeds(a, nl)
    THEN [arena |-> a, idx |-> i,
          ret |-> Ret("add", s, "Err", shortfall(a, nl), 0, <<>>)]
    ELSE IF ~slice_ok(a, i, nl) \/ nl - i # Len(s)
    THEN [arena |-> a, idx |-> i,
          ret |-> Ret("add", s, "Panic", 0, 0, <<>>)]
    ELSE LET b == copy_from_slice(a, i, nl, s) IN
         [arena |-> b, idx |-> set_idx(i, nl),
          ret |-> Ret("add", s, "Ok", 0, i, str_of(b, i, nl))]

(* ------------------------------ specification -------------------------- *)

\* StringArena::with_capacity(cap), alloc having returned a block: cap bytes
\* of any contents, nothing written
Init ==
    /\ \E cap \in Capacities : arena \in [1..cap -> Byte]
    /\ idx = 0
    /\ ret = Ret("with_capacity", <<>>, "Ok", 0, 0, <<>>)
    /\ handles = <<>>
    /\ ncalls = 0
    /\ inner = NoCall
    /\ life = "live"
    /\ block = "block"
    /\ heap = IF block = "block" THEN 1 ELSE 0
    /\ released = 0

\* a call sa.add(s) on an arena whose buffer is a block; the caller keeps the
\* string ref it gets
Add(s) ==
    /\ life = "live" /\ block = "block"
    /\ ncalls < MaxCalls
    /\ LET r == add(arena, idx, s) IN
        /\ arena' = r.arena
        /\ idx' = r.idx
        /\ ret' = r.ret
        /\ handles' = IF r.ret.kind = "Ok"
                      THEN Append(handles, [off |-> r.ret.off,
                                            len |-> Len(r.ret.val),
                                            issued |-> r.ret.val,
                                            input |-> s])
                      ELSE handles
    /\ ncalls' = ncalls + 1
    /\ inner' = NoCall
    /\ UNCHANGED memvars

\* a call sa.len()
CallLen ==
    /\ life = "live"
    /\ ret' = Ret("len", <<>>, "Ok", len(idx), 0, <<>>)
    /\ UNCHANGED <<arena, idx, handles, ncalls, inner, memvars>>

\* a call sa.is_empty()
CallIsEmpty ==
    /\ life = "live"
    /\ ret' = Ret("is_empty", <<>>, "Ok", IF is_empty(idx) THEN 1 ELSE 0, 0, <<>>)
    /\ UNCHANGED <<arena, idx, handles, ncalls, inner, memvars>>

\* a call sa.capacity()
CallCapacity ==
    /\ life = "live"
    /\ ret' = Ret("capacity", <<>>, "Ok", capacity(arena), 0, <<>>)
    /\ UNCHANGED <<arena, idx, handles, ncalls, inner, memvars>>

Next ==
    \/ \E s \in Strings : Add(s)
    \/ CallLen
    \/ CallIsEmpty
    \/ CallCapacity

Spec == Init /\ [][Next]_vars

(* ------------------------------ construction and drop ------------------ *)

\* the sizes callers ask with_capacity for: the small ones and one above
\* isize::MAX
Requests == (0..MaxCap) \cup {IsizeMax + 1}

\* what alloc(layout) hands back: a block, or null when the allocator cannot
\* satisfy the request.  A request of size 0 is outside alloc's contract and
\* is answered either way too.
AllocOutcomes == {"block", "null"}

\* before StringArena::with_capacity
InitLife ==
    /\ arena = <<>>
    /\ idx = 0
    /\ ret = NoCall
    /\ handles = <<>>
    /\ ncalls = 0
    /\ inner = NoCall
    /\ life = "new"
    /\ block = "none"
    /\ heap = 0
    /\ released = 0

\* StringArena::with_capacity(cap), the layout being Ok: the pointer alloc
\* returns goes unexamined into Vec::from_raw_parts(ptr, cap, cap) and the
\* boxed slice; idx is 0
WithCapacity(cap) ==
    /\ life = "new"
    /\ layout_ok(cap)
    /\ block' \in AllocOutcomes
    /\ heap' = IF block' = "block" THEN 1 ELSE 0
    /\ arena' \in [1..cap -> Byte]
    /\ idx' = 0
    /\ ret' = Ret("with_capacity", <<>>, "Ok", cap, 0, <<>>)
    /\ life' = "live"
    /\ UNCHANGED <<handles, ncalls, inner, released>>

\* StringArena::with_capacity(cap), the layout being an error: unwrap panics
\* and no arena is made
WithCapacityPanic(cap) ==
    /\ life = "new"
    /\ ~layout_ok(cap)
    /\ ret' = Ret("with_capacity", <<>>, "Panic", cap, 0, <<>>)
    /\ life' = "panicked"
    /\ UNCHANGED <<arena, idx, handles, ncalls, inner, block, heap, released>>

\* a call sa.add(s) on an arena whose buffer pointer is null.  The capacity
\* test reads no memory.  A non-empty copy writes through the null pointer:
\* the process faults.  An empty input yields Ok of a str at the null
\* pointer; Result<&str, Error> keeps its variant in that pointer, so the
\* caller reads it as Ok or as Err(ExceedsCapacity(0)).
AddNull(s) ==
    /\ life = "live" /\ block = "null"
    /\ ncalls < MaxCalls
    /\ LET nl == new_len(s, idx) IN
        IF exceeds(arena, nl)
        THEN /\ ret' = Ret("add", s, "Err", shortfall(arena, nl), 0, <<>>)
             /\ UNCHANGED <<life, handles>>
        ELSE IF Len(s) > 0
        THEN /\ ret' = Ret("add", s, "Fault", 0, 0, <<>>)
             /\ life' = "fault"
             /\ UNCHANGED handles
        ELSE /\ ret' \in {Ret("add", s, "Ok", 0, idx, <<>>),
                          Ret("add", s, "Err", 0, 0, <<>>)}
             /\ handles' = IF ret'.kind = "Ok"
                           THEN Append(handles, [off |-> idx, len |-> 0,
                                                 issued |-> <<>>, input |-> s])
                           ELSE handles
             /\ UNCHANGED life
    /\ ncalls' = ncalls + 1
    /\ UNCHANGED <<arena, idx, inner, block, heap, released>>

\* the arena goes out of scope: the drop glue of Box<[u8]> calls dealloc for
\* a slice of non-zero size and calls nothing for an empty one (dealloc of a
\* null pointer gives no block back)
Drop ==
    /\ life = "live"
    /\ life' = "dropped"
    /\ IF capacity(arena) # 0 /\ block = "block"
       THEN heap' = heap - 1 /\ released' = released + 1
       ELSE UNCHANGED <<heap, released>>
    /\ ret' = Ret("drop", <<>>, "Ok", 0, 0, <<>>)
    /\ UNCHANGED <<arena, idx, handles, ncalls, inner, block>>

NextLife ==
    \/ \E cap \in Requests : WithCapacity(cap)
    \/ \E cap \in Requests : WithCapacityPanic(cap)
    \/ \E s \in Strings : Add(s)
    \/ \E s \in Strings : AddNull(s)
    \/ CallLen
    \/ CallIsEmpty
    \/ CallCapacity
    \/ Drop

SpecLife == InitLife /\ [][NextLife]_vars

(* ------------------------------ the whole word ------------------------- *)

\* every usize a caller can hand to with_capacity
WordRequests == 0..(UsizeMod - 1)

\* an input of every byte length a str can have, 0..isize::MAX; the bytes
\* are all the same, the lengths being what the sums are made of
WordStrings == { [p \in 1..n |-> 1] : n \in 0..IsizeMax }

\* with_capacity(cap) with the allocator giving a block, filled alike
WordWithCapacity(cap) ==
    /\ WithCapacity(cap)
    /\ block' = "block"
    /\ arena' = [p \in 1..cap |-> 1]

NextWord ==
    \/ \E cap \in WordRequests : WordWithCapacity(cap)
    \/ \E cap \in WordRequests : WithCapacityPanic(cap)
    \/ \E s \in WordStrings : Add(s)
    \/ CallLen

SpecWord == InitLife /\ [][NextWord]_vars

(* ------------------------------ add from inside as_ref ----------------- *)

\* the outer add with idx read before s.as_ref() ran: it starts at the
\* offset the nested add started at
add_reentrant_stale(a, i, s, t) ==
    LET n == add(a, i, t)
        o == add(n.arena, i, s)
    IN  [arena |-> o.arena, idx |-> o.idx, inner |-> n.ret, ret |-> o.ret]

\* add(s) whose s.as_ref() calls add(t) on the same arena: the nested add
\* runs to its end inside the conversion, the first statement of add; the
\* outer add reads idx and the capacity after it
add_reentrant(a, i, s, t) ==
    LET n == add(a, i, t)
        o == add(n.arena, n.idx, s)
    IN  [arena |-> o.arena, idx |-> o.idx, inner |-> n.ret, ret |-> o.ret]

\* the string ref an Ok call returned, as the caller keeps it
HandleOf(r) ==
    [off |-> r.off, len |-> Len(r.val), issued |-> r.val, input |-> r.s]

\* a plain add made on the fresh arena, before the re-entrant one
FirstAdd(s) ==
    /\ ncalls = 0
    /\ Add(s)

\* a call sa.add(x) where x.as_ref() calls sa.add(t) and then gives s; it is
\* made as the first or the second call on the arena
AddReentrant(s, t) ==
    /\ life = "live" /\ block = "block"
    /\ ncalls <= 1 /\ ncalls + 2 <= MaxCalls
    /\ \E r \in {add_reentrant(arena, idx, s, t)} :
       LET h1 == IF r.inner.kind = "Ok"
                 THEN Append(handles, HandleOf(r.inner)) ELSE handles
       IN
        /\ arena' = r.arena
        /\ idx' = r.idx
        /\ inner' = r.inner
        /\ ret' = r.ret
        /\ handles' = IF r.ret.kind = "Ok"
                      THEN Append(h1, HandleOf(r.ret)) ELSE h1
    /\ ncalls' = ncalls + 2
    /\ UNCHANGED memvars

NextReentrant ==
    \/ \E s \in Strings : FirstAdd(s)
    \/ ncalls <= 1 /\ \E s, t \in Strings : AddReentrant(s, t)

SpecReentrant == Init /\ [][NextReentrant]_vars

(* ------------------------------ properties ----------------------------- *)

\* the step is a call of add (ret' is what it returned, ret'.s its input)
AddStep == ncalls' = ncalls + 1 /\ ret'.op = "add"

\* the bytes a string ref reads in buffer a
Read(a, h) == SubSeq(a, h.off + 1, h.off + h.len)

RECURSIVE Concat(_)
\* the concatenation of a sequence of byte strings
Concat(ss) == IF ss = <<>> THEN <<>> ELSE Head(ss) \o Concat(Tail(ss))

RECURSIVE SumLen(_)
\* the sum of the byte lengths of a sequence of byte strings
SumLen(ss) == IF ss = <<>> THEN 0 ELSE Len(Head(ss)) + SumLen(Tail(ss))

\* C1: after construction and after any sequence of add calls, failed or
\* not, 0 <= len() <= capacity().
C1_LenWithinCapacity ==
    /\ len(idx) \in Nat
    /\ 0 <= len(idx)
    /\ len(idx) <= capacity(arena)

\* a failed add was made on an arena filled to its capacity
C1_Witness ==
    /\ ret.op = "add" /\ ret.kind = "Err"
    /\ capacity(arena) > 0
    /\ len(idx) = capacity(arena)

\* C2: an add that fails leaves len() and every byte of the buffer as they
\* were before the call.
C2_FailedAddChangesNothing ==
    [][(AddStep /\ ret'.kind # "Ok")
         => (len(idx') = len(idx) /\ arena' = arena /\ handles' = handles)]_vars

\* an add failed on an arena that had bytes written and room left, so that a
\* part of the input would have fitted
C2_Witness ==
    /\ ret.op = "add" /\ ret.kind = "Err"
    /\ 0 < len(idx) /\ len(idx) < capacity(arena)

\* C3: an add of s with |s| > capacity() - len() returns ExceedsCapacity(k)
\* with k = |s| - (capacity() - len()) = len() + |s| - capacity().
C3_ShortfallIsExact ==
    [][(AddStep /\ Len(ret'.s) > capacity(arena) - len(idx))
         => /\ ret'.kind = "Err"
            /\ ret'.k = Len(ret'.s) - (capacity(arena) - len(idx))
            /\ ret'.k = len(idx) + Len(ret'.s) - capacity(arena)]_vars

\* an add failed after an earlier one succeeded, with room left for a part of
\* the input: the shortfall is less than the input's length
C3_Witness ==
    /\ ret.op = "add" /\ ret.kind = "Err"
    /\ len(idx) > 0
    /\ 0 < ret.k /\ ret.k < Len(ret.s)

\* C4: an add of s with |s| <= capacity() - len() succeeds and len() grows
\* by exactly |s|.
C4_FittingAddSucceeds ==
    [][(AddStep /\ Len(ret'.s) <= capacity(arena) - len(idx))
         => /\ ret'.kind = "Ok"
            /\ len(idx') = len(idx) + Len(ret'.s)]_vars

\* a non-empty add succeeded behind bytes written before
C4_Witness ==
    /\ ret.op = "add" /\ ret.kind = "Ok"
    /\ Len(ret.s) > 0
    /\ ret.off > 0

\* C5: the bytes in the range of a string ref stay what they were when it was
\* issued, through every later add, and a successful add writes only the
\* positions from the old offset up to the new one.
C5_HandleStability ==
    /\ [](\A j \in 1..Len(handles) : Read(arena, handles[j]) = handles[j].issued)
    /\ [][(AddStep /\ ret'.kind = "Ok")
            => /\ Len(arena') = Len(arena)
               /\ \A p \in 1..Len(arena) :
                     (p <= len(idx) \/ p > len(idx')) => arena'[p] = arena[p]]_vars
    /\ [][\A j \in 1..Len(handles) :
             Len(handles') >= j /\ handles'[j] = handles[j]]_vars

\* a non-empty string ref was issued, then an add succeeded and an add failed
C5_Witness ==
    /\ Len(handles) >= 2
    /\ handles[1].len > 0 /\ handles[2].len > 0
    /\ ret.op = "add" /\ ret.kind = "Err"

\* C6: the string refs of the successful adds cover contiguous ranges in the
\* order of issue, the first at 0 and each next one where the one before
\* ended, and no two of them overlap, whatever calls failed in between.
C6_HandlesContiguous ==
    /\ \A j \in 1..Len(handles) :
          handles[j].off = IF j = 1 THEN 0
                           ELSE handles[j - 1].off + handles[j - 1].len
    /\ \A j, k \in 1..Len(handles) :
          j < k => handles[j].off + handles[j].len <= handles[k].off

\* two non-empty string refs were issued and a third call failed
C6_Witness ==
    /\ Len(handles) = 2
    /\ handles[1].len > 0 /\ handles[2].len > 0
    /\ ncalls = 3
    /\ ret.op = "add" /\ ret.kind = "Ok"

\* C7: each string ref reads the bytes of its input, the string refs read in
\* order give the inputs in order, and len() is the sum of the inputs' byte
\* lengths.
C7_ReadBack ==
    /\ \A j \in 1..Len(handles) : Read(arena, handles[j]) = handles[j].input
    /\ Concat([j \in 1..Len(handles) |-> Read(arena, handles[j])])
         = Concat([j \in 1..Len(handles) |-> handles[j].input])
    /\ len(idx) = SumLen([j \in 1..Len(handles) |-> handles[j].input])

\* two adds of different non-empty inputs succeeded
C7_Witness ==
    /\ Len(handles) >= 2
    /\ handles[1].len > 0 /\ handles[2].len > 0
    /\ handles[1].input # handles[2].input

\* C8: no call lowers len(), and once is_empty() is false it stays false.
C8_LenNeverDecreases ==
    /\ [][len(idx') >= len(idx)]_vars
    /\ [][~is_empty(idx) => ~is_empty(idx')]_vars

\* is_empty() answered false after adds that followed the first non-empty one
C8_Witness ==
    /\ ret.op = "is_empty" /\ ret.k = 0
    /\ ncalls >= 2
    /\ Len(handles) >= 1 /\ handles[1].len > 0

\* C9: an add of the empty input succeeds in every state, returns an empty
\* string ref and leaves len() and the buffer as they were.
C9_EmptyAddSucceeds ==
    [][(AddStep /\ ret'.s = <<>>)
         => /\ ret'.kind = "Ok"
            /\ ret'.val = <<>>
            /\ handles'[Len(handles')].len = 0
            /\ len(idx') = len(idx)
            /\ arena' = arena]_vars

\* the empty input was added to an arena filled to its capacity
C9_Witness ==
    /\ ret.op = "add" /\ ret.s = <<>> /\ ret.kind = "Ok"
    /\ capacity(arena) > 0
    /\ len(idx) = capacity(arena)

\* C10: an add of s with |s| = capacity() - len() succeeds and leaves
\* len() = capacity(); from then on an add of a non-empty s' fails with
\* shortfall |s'|.  (len() = capacity() is reached by such an add alone.)
C10_ExactFit ==
    /\ [][(AddStep /\ Len(ret'.s) = capacity(arena) - len(idx))
            => /\ ret'.kind = "Ok"
               /\ len(idx') = capacity(arena')
               /\ capacity(arena') = capacity(arena)]_vars
    /\ [][(AddStep /\ len(idx) = capacity(arena) /\ Len(ret'.s) > 0)
            => /\ ret'.kind = "Err"
               /\ ret'.k = Len(ret'.s)]_vars

\* a non-empty add failed with its own length as shortfall, after a non-empty
\* add had filled the arena
C10_Witness ==
    /\ ret.op = "add" /\ ret.kind = "Err"
    /\ ret.k = Len(ret.s)
    /\ Len(handles) >= 1 /\ handles[Len(handles)].len > 0
    /\ len(idx) = capacity(arena)

\* C11: with_capacity(0) is accepted and gives a usable arena: its buffer is
\* no null pointer, len() = 0 and capacity() = 0, add of the empty input
\* succeeds and add of a non-empty s fails with shortfall |s|.
C11_ZeroCapacityUsable ==
    /\ [](life = "panicked" => ret.k > 0)
    /\ []((life = "live" /\ capacity(arena) = 0)
            => (block = "block" /\ len(idx) = 0))
    /\ [][(life = "live" /\ capacity(arena) = 0 /\ AddStep)
            => IF ret'.s = <<>>
               THEN ret'.kind = "Ok" /\ ret'.val = <<>>
               ELSE ret'.kind = "Err" /\ ret'.k = Len(ret'.s)]_vars

\* C15: when the allocator cannot satisfy the request construction fails
\* fatally: no arena exists whose buffer was not allocated.
C15_NoArenaWithoutBlock ==
    life \in {"live", "fault", "dropped"} => block = "block"

\* C16: for every capacity the block got at construction is given back
\* exactly once when the arena is dropped: never twice, and none is left.
C16_ReleasedExactlyOnce ==
    /\ released <= 1
    /\ life = "dropped"
         => (heap = 0 /\ (block = "block" => released = 1))

\* C12: len(), is_empty() and capacity() leave idx and the buffer as they
\* were, is_empty() is len() = 0, and capacity() is the value given to
\* with_capacity, after any calls.
C12_InspectorsPure ==
    /\ [][ret'.op \in {"len", "is_empty", "capacity"}
            => (arena' = arena /\ idx' = idx /\ handles' = handles)]_vars
    /\ [][ret'.op = "len" => ret'.k = idx]_vars
    /\ [][ret'.op = "is_empty" => ((ret'.k = 1) <=> (len(idx) = 0))]_vars
    /\ [][ret'.op = "capacity" => ret'.k = capacity(arena)]_vars
    /\ [][(ret'.op = "with_capacity" /\ ret'.kind = "Ok")
            => capacity(arena') = ret'.k]_vars
    /\ [][life = "live" => capacity(arena') = capacity(arena)]_vars

\* capacity() was asked after adds had filled a part of the arena
C12_Witness ==
    /\ ret.op = "capacity" /\ ret.k > 0
    /\ ncalls >= 2
    /\ 0 < len(idx) /\ len(idx) < ret.k

\* C13: a failed add leaves capacity() - len() as it was, and an add that
\* comes right after it with an input of at most capacity() - len() bytes
\* succeeds and returns the input's bytes.
C13_Recoverable ==
    /\ [][(AddStep /\ ret'.kind = "Err")
            => capacity(arena') - len(idx') = capacity(arena) - len(idx)]_vars
    /\ [][(AddStep /\ ret.op = "add" /\ ret.kind = "Err"
             /\ Len(ret'.s) <= capacity(arena) - len(idx))
            => (ret'.kind = "Ok" /\ ret'.val = ret'.s)]_vars

\* the first add failed and the second one, non-empty, succeeded
C13_Witness ==
    /\ ncalls = 2 /\ Len(handles) = 1
    /\ ret.op = "add" /\ ret.kind = "Ok"
    /\ Len(ret.s) > 0

\* C17: len + idx never wraps in add: with_capacity refuses a capacity above
\* isize::MAX and an input has at most isize::MAX bytes.  So no input longer
\* than the room left is accepted, and the shortfall new_len - capacity()
\* does not underflow.
C17_NoWrap ==
    /\ [](life = "live" => capacity(arena) <= IsizeMax)
    /\ [](life = "panicked" => ret.k > IsizeMax)
    /\ [][AddStep
            => /\ len(idx) + Len(ret'.s) < UsizeMod
               /\ new_len(ret'.s, idx) = len(idx) + Len(ret'.s)
               /\ (Len(ret'.s) > capacity(arena) - len(idx)
                     => ret'.kind = "Err")
               /\ (ret'.kind = "Err"
                     => /\ new_len(ret'.s, idx) > capacity(arena)
                        /\ ret'.k = len(idx) + Len(ret'.s) - capacity(arena))]_vars

\* the largest sum: an arena of capacity isize::MAX filled to the end was
\* handed an input of isize::MAX bytes
C17_Witness ==
    /\ life = "live"
    /\ capacity(arena) = IsizeMax
    /\ len(idx) = IsizeMax
    /\ ret.op = "add" /\ ret.kind = "Err"
    /\ Len(ret.s) = IsizeMax

\* C18: when the conversion of add's input runs a successful add on the same
\* arena and the outer add succeeds too, the outer add writes from the
\* offset the nested add left, the two string refs cover disjoint ranges,
\* the nested one's bytes are not overwritten, and len() has grown by the
\* sum of both lengths.
C18_ReentrantAdd ==
    [][(ncalls' = ncalls + 2 /\ inner'.kind = "Ok" /\ ret'.kind = "Ok")
         => /\ inner'.off = len(idx)
            /\ ret'.off = len(idx) + Len(inner'.s)
            /\ inner'.off + Len(inner'.val) <= ret'.off
            /\ Read(arena', HandleOf(inner')) = inner'.s
            /\ Read(arena', HandleOf(ret')) = ret'.s
            /\ len(idx') = len(idx) + Len(inner'.s) + Len(ret'.s)
            /\ \A j \in 1..Len(handles') :
                  Read(arena', handles'[j]) = handles'[j].input]_vars

\* a nested and an outer add of different non-empty inputs both succeeded
C18_Witness ==
    /\ inner.op = "add" /\ inner.kind = "Ok"
    /\ ret.op = "add" /\ ret.kind = "Ok"
    /\ Len(inner.s) > 0 /\ Len(ret.s) > 0
    /\ inner.s # ret.s

====
